---- MODULE Spec2Model ----
(***************************************************************************)
(* dendrocat/utils.py: the catalog merge pass of match(), the ellipse      *)
(* union commonbeam() and the unit guard ucheck().                         *)
(*                                                                         *)
(* Numbers.  Sky coordinates are floats in the source.  Here they are      *)
(* integers on a grid whose points are multiples of Scale, a power of two  *)
(* so large that every average taken during one pass is exact.  The Euclidean       *)
(* distance sqrt(dx^2 + dy^2) is compared through its square.              *)
(*                                                                         *)
(* Ellipses.  (major_fwhm, minor_fwhm, position_angle) are always read and *)
(* written together; they are one field, ellipse, whose value is the set   *)
(* of input footprints the ellipse encloses.  The external solver          *)
(* Beams.common_beam returns the smallest ellipse enclosing both inputs:   *)
(* the union of the two sets.                                              *)
(*                                                                         *)
(* Tables.  A table is a sequence of rows; position p of the source        *)
(* (0-based) is element p + 1 here.  A cell holds a value or is masked.    *)
(***************************************************************************)
EXTENDS Integers, Sequences, FiniteSets, TLC

VARIABLES
    stack,       \* match: the working table (utils.py:247)
    i,           \* match: the loop position, 0-based (utils.py:262)
    rejected,    \* match: positions of the rejected rows, taken once (utils.py:256)
    threshold,   \* match: the threshold in degrees (utils.py:239)
    fill_value,  \* match: fill_value of the "detected" column (utils.py:331)
    pc,          \* match: "loop", "done" (returned) or "raised"
    err,         \* match: the exception that left match(), or "none"
    result,      \* match: the catalog handed to the caller, or "none"
    stack0,      \* history: the stacked input of the pass
    examined,    \* history: _idx of the rows taken as teststar, in order
    matches,     \* history: number of matches declared so far
    uq,          \* ucheck: the quantity argument
    uunit,       \* ucheck: the unit argument
    ures,        \* ucheck: what the call produced
    upc,         \* ucheck: "call", "returned" or "raised"
    somebeams,   \* commonbeam: the two ellipses handed to the solver (utils.py:171)
    behaviour,   \* commonbeam: the tolerances Beams.common_beam succeeds at
    tol,         \* commonbeam: position of the loop in the tolerances (utils.py:175)
    attempts,    \* commonbeam: the calls of the solver made so far, in order
    common,      \* commonbeam: <<>> while unbound, else <<the solver's result>>
    bres,        \* commonbeam: what the call produced
    bpc          \* commonbeam: "loop", "after", "returned" or "raised"

mvars == <<stack, i, rejected, threshold, fill_value, pc, err, result,
           stack0, examined, matches>>
uvars == <<uq, uunit, ures, upc>>
bvars == <<somebeams, behaviour, tol, attempts, common, bres, bpc>>
vars == <<mvars, uvars, bvars>>

----------------------------------------------------------------------------
(* Bounds of the model *)

\* rows of a stacked input whose catalogs share their columns
MaxRows == 5

\* rows of a stacked input in which cells may be missing
MaxCellRows == 4

\* rows of a catalog merged with its own copy
MaxCat == 3

\* items of a list handed to ucheck
MaxItems == 2

\* rows of a crowded stacked input besides its column of Cap sources
MaxExtra == 2

\* the grid step: a power of two that no pass of these sizes halves away
Scale == 2 ^ 12

Points == {<<0, 0>>, <<Scale, 0>>, <<Scale, Scale>>}

Thresholds == {0, Scale}

\* a cell holds <<v>>, or <<>> when it is masked
Masked == <<>>

Cell(v) == <<v>>

DetVals == {Cell(1)}

Range(s) == {s[k] : k \in 1..Len(s)}

Min(a, b) == IF a <= b THEN a ELSE b

Abs(a) == IF a < 0 THEN -a ELSE a

----------------------------------------------------------------------------
(* ucheck *)

Units == {"deg", "arcsec", "pix"}

NoUnit == "None"

\* arcseconds per unit; pix is a different physical dimension
UnitScale(un) == IF un = "deg" THEN 3600 ELSE 1

is_equivalent(u1, u2) ==
    /\ u1 \in Units
    /\ u2 \in Units
    /\ (u1 = "pix") = (u2 = "pix")

\* Quantity.to / Column.to: the magnitude expressed in another unit
to(value, from, un) == (value * UnitScale(from)) \div UnitScale(un)

Raised(e) == [status |-> e, kind |-> "none", unit |-> NoUnit,
              value |-> 0, warned |-> FALSE]

Returned(k, un, v, w) == [status |-> "ok", kind |-> k, unit |-> un,
                          value |-> v, warned |-> w]

\* lines 124-148: a list or tuple; q.value is the sequence of magnitudes and
\* q.unit the sequence of the items' units
ucheck_list(q, unit) ==
    LET existing_units == q.unit
        n == Len(existing_units)
        mixed == \E a, b \in 1..n :
                     (existing_units[a] = NoUnit) # (existing_units[b] = NoUnit)
        nonequiv == \E a, b \in 1..n :
                     /\ existing_units[a] # NoUnit
                     /\ existing_units[b] # NoUnit
                     /\ existing_units[a] # existing_units[b]
                     /\ ~is_equivalent(existing_units[a], existing_units[b])
    IN  IF \A a \in 1..n : existing_units[a] = NoUnit
        THEN Returned("Quantity", unit, q.value, TRUE)
        ELSE IF mixed \/ nonequiv
        THEN Raised("NonEquivalentError")
        ELSE IF \A a \in 1..n : is_equivalent(existing_units[a], unit)
        THEN Returned("Quantity", unit,
                      [a \in 1..n |-> to(q.value[a], existing_units[a], unit)],
                      FALSE)
        ELSE Raised("UnitConversionError")

\* lines 150-157: the return of line 156 comes before the warning of line
\* 157, which is never reached
ucheck_scalar(q, unit) ==
    IF q.unit # NoUnit /\ is_equivalent(unit, q.unit)
    THEN Returned("Quantity", unit, to(q.value, q.unit, unit), FALSE)
    ELSE IF q.unit # NoUnit
    THEN Raised("NonEquivalentError")
    ELSE Returned("Quantity", unit, q.value, FALSE)

\* lines 90-110.  MaskedColumn is a subclass of Column, so the isinstance test
\* of line 90 takes both and the result is built by Column(...).
ucheck_column(q, unit) ==
    IF q.unit = NoUnit
    THEN Returned("Column", unit, q.value, TRUE)
    ELSE IF is_equivalent(unit, q.unit)
    THEN Returned("Column", unit, to(q.value, q.unit, unit), FALSE)
    ELSE Raised("NonEquivalentError")

ucheck(q, unit) ==
    IF q.kind \in {"Column", "MaskedColumn"}
    THEN ucheck_column(q, unit)
    ELSE IF q.kind = "PixCoord"
    THEN IF is_equivalent(unit, "pix")
         THEN Returned("PixCoord", NoUnit, q.value, FALSE)
         ELSE Raised("NonEquivalentError")
    ELSE IF q.kind = "SkyCoord"
    THEN IF is_equivalent(unit, "deg")
         THEN Returned("SkyCoord", NoUnit, q.value, FALSE)
         ELSE Raised("NonEquivalentError")
    ELSE IF q.kind = "list"
    THEN ucheck_list(q, unit)
    ELSE ucheck_scalar(q, unit)

----------------------------------------------------------------------------
(* commonbeam *)

\* the tolerances of line 175 with the strictest first
StrictestFirst == <<1, 10, 100, 500, 1000>>

\* line 175: the tolerances, in units of 1e-7, in the order of the loop
Tolerances == <<1000, 500, 100, 10, 1>>

\* One behaviour of Beams.common_beam over a call of commonbeam: which
\* tolerances it succeeds at (it raises BeamError at the others).
Solvers == [Range(Tolerances) -> BOOLEAN]

Scalar(v) == [kind |-> "scalar", unit |-> NoUnit, value |-> v]

\* lines 175-180: the position in Tolerances of the first success at or
\* after k, or 0 when the loop runs out
RECURSIVE FirstSuccess(_, _)
FirstSuccess(solver, k) ==
    IF k > Len(Tolerances) THEN 0
    ELSE IF solver[Tolerances[k]] THEN k
    ELSE FirstSuccess(solver, k + 1)

\* What the loop of lines 175-180 can do over the behaviours of the solver:
\* the position of the attempt that bound common, 0 when none did
LoopOutcomes == {FirstSuccess(solver, 1) : solver \in Solvers}

\* lines 175-182 when no attempt succeeded: every BeamError was caught by
\* line 179, common was never bound and line 182 reads it
UnboundCommon == "UnboundLocalError"

BeamRaised(e, k) ==
    [status |-> e, value |-> {}, tolerance |-> 0, tried |-> SubSeq(Tolerances, 1, k)]

\* lines 159-186 with the loop ending as `first` says; the two ellipses
\* arrive as bare floats (lines 303-310)
commonbeam(ellipse1, ellipse2, first) ==
    LET e1 == ucheck(Scalar(ellipse1), "deg")
        e2 == ucheck(Scalar(ellipse2), "deg")
    IN  IF e1.status # "ok" THEN BeamRaised(e1.status, 0)
        ELSE IF e2.status # "ok" THEN BeamRaised(e2.status, 0)
        ELSE IF first = 0
        THEN BeamRaised(UnboundCommon, Len(Tolerances))
        ELSE [status |-> "ok",
              value |-> e1.value \cup e2.value,
              tolerance |-> Tolerances[first],
              tried |-> SubSeq(Tolerances, 1, first)]

\* what a call of commonbeam can come to, over the behaviours of the solver
CommonBeams(ellipse1, ellipse2) ==
    {commonbeam(ellipse1, ellipse2, first) : first \in LoopOutcomes}

----------------------------------------------------------------------------
(* match: one merge pass, lines 246-334 *)

\* line 284
Cap == 10

\* center, rejected and the "detected" cell of an input row: of a catalog
\* that has the column, and of one that may lack it
PlainAttrs == Points \X {0, 1} \X DetVals

CellAttrs == Points \X {0, 1} \X ({Masked} \cup DetVals)

\* lines 247-254: row k of the stacked table
MkRow(k, a) ==
    [index |-> k - 1, idx |-> k, x_cen |-> a[1][1], y_cen |-> a[1][2],
     ellipse |-> {k}, rejected |-> a[2], detected |-> a[3]]

\* a removal that acts on a copy of the table
RemoveNone(s, p) == s

\* line 296
RemoveAt(s, p) == SubSeq(s, 1, p - 1) \o SubSeq(s, p + 1, Len(s))

\* position (1-based) of the row of s that carries _index n
PosOf(s, n) == CHOOSE p \in 1..Len(s) : s[p].index = n

\* line 256
RejectedPositions(s) == {p - 1 : p \in {q \in 1..Len(s) : s[q].rejected = 1}}

\* np.average of two values
Average(a, b) == (a + b) \div 2

\* lines 275, 276
dx(r, t) == Abs(r.x_cen - t.x_cen)

dy(r, t) == Abs(r.y_cen - t.y_cen)

\* lines 285, 286: the square of dist
Dist2(r, t) == dx(r, t) * dx(r, t) + dy(r, t) * dy(r, t)

\* line 287: dist <= threshold
Within(d2, thr) == d2 <= thr * thr

\* delta_p without the selection of line 273
delta_p_all(s, t) == {r \in Range(s) : r.index # t.index}

\* lines 273, 274: the rows of delta_p
delta_p(s, t) == {r \in Range(s) : r.rejected = 0 /\ r.index # t.index}

\* the rows that get a distance when every row of delta_p gets one
CappedAll(s, t) == {delta_p(s, t)}

\* lines 277, 284: the rows that get a distance, the min(10, len) first of
\* delta_p sorted by x offset.  The sort is not stable by contract, so rows
\* of equal offset may come in any order.
Capped(s, t) ==
    LET d == delta_p(s, t)
        n == Min(Cap, Cardinality(d))
    IN  IF n = Cardinality(d) THEN {d}
        ELSE {c \in SUBSET d :
                /\ Cardinality(c) = n
                /\ \A a \in c : \A b \in d \ c : dx(a, t) <= dx(b, t)}

\* lines 284-288
found_match(c, t, thr) == \E r \in c : Within(Dist2(r, t), thr)

\* delta_p[0] without the sort of line 291
FirstOfAny(c, t) == c

\* lines 290, 291, 294: the rows delta_p[0] may be after the sort by dist
\* (rows without a distance are masked and sort last)
Nearest(c, t) == {r \in c : \A q \in c : Dist2(r, t) <= Dist2(q, t)}

\* lines 320-323: masked cells of the row take the cell of the match
Fill(row, m) ==
    [row EXCEPT !.detected = IF @ = Masked THEN m.detected ELSE @]

\* lines 299-317: the row at position i after the removal, merged with match
Merged(ts, m, new_ellipse) ==
    [ts EXCEPT !.x_cen = Average(m.x_cen, ts.x_cen),
               !.y_cen = Average(m.y_cen, ts.y_cen),
               !.ellipse = new_ellipse]

\* line 333
Reindex(s) == [p \in 1..Len(s) |-> [s[p] EXCEPT !.index = p - 1]]

InitU ==
    /\ uq = "none"
    /\ uunit = "none"
    /\ ures = "none"
    /\ upc = "idle"

\* no call of commonbeam of its own is under way
InitB ==
    /\ somebeams = <<>>
    /\ behaviour = <<>>
    /\ tol = 0
    /\ attempts = <<>>
    /\ common = <<>>
    /\ bres = "none"
    /\ bpc = "idle"

\* the pass starts on the stacked table s (lines 256, 262)
Start(s) ==
    /\ stack = s
    /\ stack0 = s
    /\ rejected = RejectedPositions(s)
    /\ i = 0
    /\ fill_value = Masked
    /\ pc = "loop"
    /\ err = "none"
    /\ result = "none"
    /\ examined = <<>>
    /\ matches = 0

Init ==
    /\ \E n \in 0..MaxRows : \E f \in [1..n -> PlainAttrs] :
           Start([k \in 1..n |-> MkRow(k, f[k])])
    /\ threshold \in Thresholds
    /\ InitU
    /\ InitB

\* the two catalogs differ in their columns: cells of the stack are masked
InitCells ==
    /\ \E n \in 0..MaxCellRows : \E f \in [1..n -> CellAttrs] :
           Start([k \in 1..n |-> MkRow(k, f[k])])
    /\ threshold \in Thresholds
    /\ InitU
    /\ InitB

\* match(cat, cat): the stacked table is the catalog followed by its copy
InitSelf ==
    /\ \E n \in 0..MaxCat : \E f \in [1..n -> PlainAttrs] :
           Start([k \in 1..(2 * n) |->
                     MkRow(k, f[IF k <= n THEN k ELSE k - n])])
    /\ threshold \in Thresholds
    /\ InitU
    /\ InitB

\* a crowded field: up to MaxExtra sources on and beside the origin, then a
\* column of Cap sources straight above it, one grid step apart
CapPoints == {<<0, 0>>, <<Scale, 0>>}

CapAttrs == CapPoints \X {0, 1} \X DetVals

CapThresholds == {Scale, 2 * Scale}

ColumnAttr(k) == <<<<0, (k + 1) * Scale>>, 0, Cell(1)>>

InitCap ==
    /\ \E n \in 0..MaxExtra : \E f \in [1..n -> CapAttrs] :
           Start([k \in 1..(n + Cap) |->
                     MkRow(k, IF k <= n THEN f[k] ELSE ColumnAttr(k - n))])
    /\ threshold \in CapThresholds
    /\ InitU
    /\ InitB

\* lines 265, 266, 328-335
Finish ==
    /\ pc = "loop"
    /\ i >= Len(stack) - 1
    /\ fill_value' = Cell(0)
    /\ stack' = Reindex(stack)
    /\ result' = stack'
    /\ pc' = "done"
    /\ UNCHANGED <<i, rejected, threshold, err, stack0, examined, matches, uvars, bvars>>

\* lines 268-270
Skip ==
    /\ pc = "loop"
    /\ i < Len(stack) - 1
    /\ i \in rejected
    /\ i' = i + 1
    /\ UNCHANGED <<stack, rejected, threshold, fill_value, pc, err, result,
                   stack0, examined, matches, uvars, bvars>>

\* lines 272-291, 324: no distance within the threshold
NoMatch ==
    /\ pc = "loop"
    /\ i < Len(stack) - 1
    /\ i \notin rejected
    /\ LET teststar == stack[i + 1]
       IN  /\ \E c \in Capped(stack, teststar) :
                  ~found_match(c, teststar, threshold)
           /\ examined' = Append(examined, teststar.idx)
    /\ i' = i + 1
    /\ UNCHANGED <<stack, rejected, threshold, fill_value, pc, err, result,
                   stack0, matches, uvars, bvars>>

\* lines 272-324: a match is found and removed; commonbeam returns and the
\* row at position i is rewritten
Merge ==
    /\ pc = "loop"
    /\ i < Len(stack) - 1
    /\ i \notin rejected
    /\ LET teststar == stack[i + 1]
       IN  \E c \in Capped(stack, teststar) :
             /\ found_match(c, teststar, threshold)
             /\ \E match \in Nearest(c, teststar) :
                  LET removed == RemoveAt(stack, PosOf(stack, match.index))
                      \* teststar is a view of position i of the table
                      ts == removed[i + 1]
                      returns == {b \in CommonBeams(match.ellipse, ts.ellipse) :
                                    b.status = "ok"}
                  IN  \E new_ellipse \in {b.value : b \in returns} :
                      /\ examined' = Append(examined, teststar.idx)
                      /\ matches' = matches + 1
                      /\ stack' = [removed EXCEPT ![i + 1] =
                               Fill(Merged(ts, match, new_ellipse), match)]
                      /\ i' = i + 1
    /\ UNCHANGED <<rejected, threshold, fill_value, pc, err, result, stack0,
                   uvars, bvars>>

\* lines 272-310: a match is found and removed; commonbeam raises and the
\* exception leaves match()
MergeRaise ==
    /\ pc = "loop"
    /\ i < Len(stack) - 1
    /\ i \notin rejected
    /\ LET teststar == stack[i + 1]
       IN  \E c \in Capped(stack, teststar) :
             /\ found_match(c, teststar, threshold)
             /\ \E match \in Nearest(c, teststar) :
                  LET removed == RemoveAt(stack, PosOf(stack, match.index))
                      ts == removed[i + 1]
                      failed == {b \in CommonBeams(match.ellipse, ts.ellipse) :
                                    b.status # "ok"}
                  IN  \E exception \in {b.status : b \in failed} :
                      /\ examined' = Append(examined, teststar.idx)
                      /\ matches' = matches + 1
                      /\ stack' = removed
                      /\ pc' = "raised"
                      /\ err' = exception
    /\ UNCHANGED <<i, rejected, threshold, fill_value, result, stack0, uvars, bvars>>

Next == Finish \/ Skip \/ NoMatch \/ Merge \/ MergeRaise

Spec == Init /\ [][Next]_vars

SpecCells == InitCells /\ [][Next]_vars

SpecSelf == InitSelf /\ [][Next]_vars

SpecCap == InitCap /\ [][Next]_vars

----------------------------------------------------------------------------
(* ucheck as a call of its own *)

UValues == {0, 3600, 7200}

Quantities ==
    [kind : {"Column", "MaskedColumn", "scalar"},
     unit : {NoUnit} \cup Units, value : UValues]
    \cup [kind : {"PixCoord", "SkyCoord"}, unit : {NoUnit}, value : UValues]
    \cup UNION {[kind : {"list"},
                 unit : [1..n -> {NoUnit} \cup Units],
                 value : [1..n -> UValues]] : n \in 1..MaxItems}

InitM ==
    /\ stack = <<>>
    /\ stack0 = <<>>
    /\ rejected = {}
    /\ i = 0
    /\ threshold = 0
    /\ fill_value = Masked
    /\ pc = "idle"
    /\ err = "none"
    /\ result = "none"
    /\ examined = <<>>
    /\ matches = 0

InitUcheck ==
    /\ uq \in Quantities
    /\ uunit \in Units
    /\ ures = "none"
    /\ upc = "call"
    /\ InitM
    /\ InitB

\* lines 77-157, the call returns
UcheckReturn ==
    /\ upc = "call"
    /\ ucheck(uq, uunit).status = "ok"
    /\ ures' = ucheck(uq, uunit)
    /\ upc' = "returned"
    /\ UNCHANGED <<uq, uunit, mvars, bvars>>

\* lines 77-157, the call raises
UcheckRaise ==
    /\ upc = "call"
    /\ ucheck(uq, uunit).status # "ok"
    /\ ures' = ucheck(uq, uunit)
    /\ upc' = "raised"
    /\ UNCHANGED <<uq, uunit, mvars, bvars>>

NextUcheck == UcheckReturn \/ UcheckRaise

SpecUcheck == InitUcheck /\ [][NextUcheck]_vars

----------------------------------------------------------------------------
(* commonbeam as a call of its own, attempt by attempt *)

BeamInputs == {{1}, {2}}

\* lines 164-173: the arguments went through ucheck and the loop is entered
InitBeam ==
    /\ \E e1, e2 \in BeamInputs :
           /\ ucheck(Scalar(e1), "deg").status = "ok"
           /\ ucheck(Scalar(e2), "deg").status = "ok"
           /\ somebeams = <<ucheck(Scalar(e1), "deg").value,
                            ucheck(Scalar(e2), "deg").value>>
    /\ behaviour \in Solvers
    /\ tol = 1
    /\ attempts = <<>>
    /\ common = <<>>
    /\ bres = "none"
    /\ bpc = "loop"
    /\ InitM
    /\ InitU

\* lines 176-178: the solver returns at this tolerance; common is bound and
\* the loop is left
BeamSolved ==
    /\ bpc = "loop"
    /\ behaviour[Tolerances[tol]]
    /\ attempts' = Append(attempts, [tolerance |-> Tolerances[tol], ok |-> TRUE])
    /\ common' = <<[value |-> somebeams[1] \cup somebeams[2],
                    tolerance |-> Tolerances[tol]]>>
    /\ bpc' = "after"
    /\ UNCHANGED <<somebeams, behaviour, tol, bres, mvars, uvars>>

\* lines 176, 177, 179, 180: the solver raises BeamError at this tolerance;
\* the loop goes on to the next one, or runs out
BeamFailed ==
    /\ bpc = "loop"
    /\ ~behaviour[Tolerances[tol]]
    /\ attempts' = Append(attempts, [tolerance |-> Tolerances[tol], ok |-> FALSE])
    /\ tol' = tol + 1
    /\ bpc' = IF tol + 1 > Len(Tolerances) THEN "after" ELSE "loop"
    /\ UNCHANGED <<somebeams, behaviour, common, bres, mvars, uvars>>

\* lines 182-186 with common bound
BeamReturn ==
    /\ bpc = "after"
    /\ common # <<>>
    /\ bres' = [status |-> "ok", value |-> common[1].value,
                tolerance |-> common[1].tolerance,
                tried |-> [a \in 1..Len(attempts) |-> attempts[a].tolerance]]
    /\ bpc' = "returned"
    /\ UNCHANGED <<somebeams, behaviour, tol, attempts, common, mvars, uvars>>

\* line 182 with common unbound
BeamUnbound ==
    /\ bpc = "after"
    /\ common = <<>>
    /\ bres' = [status |-> UnboundCommon, value |-> {}, tolerance |-> 0,
                tried |-> [a \in 1..Len(attempts) |-> attempts[a].tolerance]]
    /\ bpc' = "raised"
    /\ UNCHANGED <<somebeams, behaviour, tol, attempts, common, mvars, uvars>>

NextBeam == BeamSolved \/ BeamFailed \/ BeamReturn \/ BeamUnbound

SpecBeam == InitBeam /\ [][NextBeam]_vars

----------------------------------------------------------------------------
(* Properties *)

NRejected(s) == Cardinality({p \in 1..Len(s) : s[p].rejected = 1})

Active(s) == {p \in 1..Len(s) : s[p].rejected = 0}

\* a row without its _index, which line 333 reassigns
Content(r) == [r EXCEPT !.index = 0]

Count(s, v) == Cardinality({k \in 1..Len(s) : s[k] = v})

SameCenter(a, b) == a.x_cen = b.x_cen /\ a.y_cen = b.y_cen

\* a step of the pass that declared a match and went on
MergeStep == pc = "loop" /\ pc' = "loop" /\ matches' = matches + 1

\* the row a merge step removed
Partner == CHOOSE r \in Range(stack) :
               \A q \in Range(stack') : q.index # r.index

\* C1: in every merge pass a rejected row is never taken as the test row and
\* none of its fields is overwritten: it is in the working table, and in the
\* output, with every column but _index as in the stacked input.
C1_RejectedUntouched ==
    \A k \in 1..Len(stack0) :
        stack0[k].rejected = 1 =>
            /\ stack0[k].idx \notin Range(examined)
            /\ \E p \in 1..Len(stack) : Content(stack[p]) = Content(stack0[k])

\* C2: the candidate set built for any test row holds only rows with
\* rejected = 0, so no rejected row is ever removed: the working table, and
\* the output, hold as many rejected rows as the stacked input, each of them
\* a rejected row of the input.
C2_RejectedNeverConsumed ==
    /\ (pc = "loop" /\ i < Len(stack)) =>
           \A c \in Capped(stack, stack[i + 1]) : \A r \in c : r.rejected = 0
    /\ NRejected(stack) = NRejected(stack0)
    /\ \A k \in 1..Len(stack0) :
           stack0[k].rejected = 1 =>
               \E p \in 1..Len(stack) :
                   stack[p].idx = stack0[k].idx /\ stack[p].rejected = 1
    /\ pc = "done" => NRejected(result) = NRejected(stack0)

\* a finished pass with a match in which a rejected row lay on the very
\* point of a row that was tested
C2_Witness ==
    /\ pc = "done"
    /\ matches >= 1
    /\ \E k, j \in 1..Len(stack0) :
           /\ stack0[k].rejected = 1
           /\ stack0[j].rejected = 0
           /\ SameCenter(stack0[k], stack0[j])
           /\ stack0[j].idx \in Range(examined)

\* C3: at every point of a pass the working table has as many rows as the
\* stacked input minus the matches declared so far, and so has the output.
C3_RowCount ==
    /\ Len(stack) = Len(stack0) - matches
    /\ pc = "done" => Len(result) = Len(stack0) - matches

C3_Witness == pc = "done" /\ matches = 2 /\ Len(result) = Len(stack0) - 2

\* C4: two non-rejected sources exactly the threshold apart, with no other
\* non-rejected source about, are merged into one output row; two such
\* sources farther apart than the threshold are both in the output as they
\* were.
C4_ThresholdBoundary ==
    (pc = "done" /\ Cardinality(Active(stack0)) = 2) =>
        LET a == stack0[CHOOSE p \in Active(stack0) : TRUE]
            b == stack0[CHOOSE p \in Active(stack0) : stack0[p] # a]
        IN  /\ Dist2(a, b) = threshold * threshold =>
                   /\ Cardinality(Active(result)) = 1
                   /\ \E p \in Active(result) :
                          result[p].ellipse = a.ellipse \cup b.ellipse
            /\ Dist2(a, b) > threshold * threshold =>
                   \A r \in {a, b} :
                       \E p \in 1..Len(result) :
                           Content(result[p]) = Content(r)

\* the catalog of a pass that merges a catalog with its copy
CatLen == Len(stack0) \div 2

\* C5 as stated: merging a catalog with an exact copy of itself yields one
\* output row per row of the catalog, each with the center of that row.
C5_Idempotence ==
    pc = "done" =>
        /\ Len(result) = CatLen
        /\ \A k \in 1..CatLen : SameCenter(result[k], stack0[k])

DistinctCenters ==
    \A j, k \in 1..CatLen : j # k => ~SameCenter(stack0[j], stack0[k])

\* C5 amended: merging a catalog that has no rejected row and no two rows on
\* the same center with an exact copy of itself yields one output row per
\* row of the catalog, in the catalog's order, each with the center of its
\* row and merged with its own copy and nothing else.
C5_IdempotenceDistinct ==
    (pc = "done" /\ NRejected(stack0) = 0 /\ DistinctCenters) =>
        /\ Len(result) = CatLen
        /\ matches = CatLen
        /\ \A k \in 1..CatLen :
               /\ result[k].idx = stack0[k].idx
               /\ SameCenter(result[k], stack0[k])
               /\ result[k].ellipse =
                      stack0[k].ellipse \cup stack0[k + CatLen].ellipse

\* a finished self-merge of a catalog of distinct sources, two of them
\* within the threshold of each other
C5_Witness ==
    /\ pc = "done"
    /\ NRejected(stack0) = 0
    /\ DistinctCenters
    /\ CatLen >= 2
    /\ Len(result) = CatLen
    /\ \E j, k \in 1..CatLen :
           j # k /\ Within(Dist2(stack0[j], stack0[k]), threshold)

\* C6: after a match, a column that was missing in the surviving (test) row
\* and present in the removed partner holds the partner's value, and a
\* column the surviving row had a value in (center and ellipse apart) keeps
\* it.
C6_MissingFieldFill ==
    [][MergeStep =>
        LET t == stack[i + 1]
            m == Partner
        IN  \E p \in 1..Len(stack') :
                /\ stack'[p].index = t.index
                /\ stack'[p].idx = t.idx
                /\ stack'[p].rejected = t.rejected
                /\ stack'[p].detected =
                       IF t.detected = Masked THEN m.detected ELSE t.detected
    ]_vars

\* C7: when the solver fails at every tolerance, commonbeam ends with the
\* solver's own failure, BeamError, which leaves match(); the caller gets no
\* catalog.
C7_SolverFailurePropagates ==
    pc = "raised" => (err = "BeamError" /\ result = "none")

\* C8: ucheck of a scalar or column that carries no unit returns the value,
\* its magnitude unchanged, in the required unit, and warns.
C8_UnitlessAssumed ==
    (upc # "call" /\ uq.kind \in {"scalar", "Column", "MaskedColumn"}
                  /\ uq.unit = NoUnit) =>
        /\ upc = "returned"
        /\ ures.value = uq.value
        /\ ures.unit = uunit
        /\ ures.warned

\* C9: when a match is declared the row that is overwritten is the test row
\* and no other: its center becomes the average of its center and the
\* partner's, its ellipse the union of its ellipse and the partner's,
\* wherever the partner sits.
C9_TestRowOverwritten ==
    [][MergeStep =>
        LET t == stack[i + 1]
            m == Partner
        IN  \A p \in 1..Len(stack') :
                IF stack'[p].index = t.index
                THEN /\ stack'[p].x_cen = Average(t.x_cen, m.x_cen)
                     /\ stack'[p].y_cen = Average(t.y_cen, m.y_cen)
                     /\ stack'[p].ellipse = t.ellipse \cup m.ellipse
                ELSE stack'[p] \in Range(stack)
    ]_vars

\* C10: in one pass every non-rejected row that is not matched away is
\* examined as the test row exactly once, in left-to-right order.  The row
\* the pass ends on (the last position, which line 265 leaves out) is not
\* asked for here.
C10_EveryActiveRowExamined ==
    pc = "done" =>
        /\ \A p \in 1..Len(result) :
               (result[p].rejected = 0 /\ p < Len(result)) =>
                   Count(examined, result[p].idx) = 1
        /\ \A j, k \in 1..Len(examined) : j < k => examined[j] < examined[k]

\* a step of the pass that examined a test row
TestStep == pc = "loop" /\ examined' # examined

\* the rows a step took out of the working table
Consumed == {r \in Range(stack) : \A q \in Range(stack') : q.index # r.index}

\* the sets of at most 10 active candidates of smallest x offset for test row t
SmallestOffset(t) ==
    LET d == {r \in Range(stack) : r.rejected = 0 /\ r.index # t.index}
    IN  {c \in SUBSET d :
            /\ Cardinality(c) = (IF Cardinality(d) < 10 THEN Cardinality(d) ELSE 10)
            /\ \A a \in c : \A b \in d \ c :
                   Abs(a.x_cen - t.x_cen) <= Abs(b.x_cen - t.x_cen)}

\* C11: the step of a test row takes at most one row out of the working
\* table, and none when no match is declared; the row a match takes out is
\* an active candidate of minimum distance to the test row among the at most
\* 10 active candidates of smallest x offset; every other row stays in the
\* table.
C11_NearestOfCappedConsumed ==
    [][TestStep =>
        LET t == stack[i + 1]
        IN  /\ Cardinality(Consumed) <= 1
            /\ Len(stack') = Len(stack) - Cardinality(Consumed)
            /\ (matches' = matches) => Consumed = {}
            /\ (matches' = matches + 1) =>
                   \E m \in Consumed : \E c \in SmallestOffset(t) :
                       /\ m \in c
                       /\ \A q \in c : Dist2(m, t) <= Dist2(q, t)
                       /\ Within(Dist2(m, t), threshold)
    ]_vars

\* the first row of a crowded field has more than 10 active candidates; its
\* step consumed one of them and left a nearer active source in the table
C11_Witness ==
    /\ i = 1
    /\ matches = 1
    /\ pc = "loop"
    /\ Cardinality({k \in 2..Len(stack0) : stack0[k].rejected = 0}) > Cap
    /\ \E g \in Range(stack0) : \E r \in Range(stack) \cap Range(stack0) :
           /\ \A q \in Range(stack) : q.idx # g.idx
           /\ r.rejected = 0
           /\ r.idx # stack0[1].idx
           /\ Dist2(r, stack0[1]) < Dist2(g, stack0[1])

\* C12: the solver is called at the tolerances 1e-4, 5e-5, 1e-5, 1e-6, 1e-7
\* (1000, 500, 100, 10, 1 in units of 1e-7) in that order; every attempt but
\* the last made so far has failed, so a tolerance is tried only after every
\* looser one failed and nothing is tried after a success; a call that
\* returns returns the result of its one successful attempt.
C12_LoosestFirst ==
    /\ Len(attempts) <= 5
    /\ \A a \in 1..Len(attempts) :
           /\ attempts[a].tolerance = <<1000, 500, 100, 10, 1>>[a]
           /\ attempts[a].ok = behaviour[attempts[a].tolerance]
           /\ a < Len(attempts) => ~attempts[a].ok
    /\ bpc = "returned" =>
           /\ attempts # <<>>
           /\ attempts[Len(attempts)].ok
           /\ bres.status = "ok"
           /\ bres.tolerance = attempts[Len(attempts)].tolerance
           /\ bres.value = somebeams[1] \cup somebeams[2]
           /\ bres = commonbeam(somebeams[1], somebeams[2],
                                FirstSuccess(behaviour, 1))

\* a call that returned the result of its third attempt although the solver
\* would also have succeeded at a stricter tolerance
C12_Witness ==
    /\ bpc = "returned"
    /\ Len(attempts) = 3
    /\ bres.tolerance = 100
    /\ behaviour[10]

\* C13: when a pass has returned no entry of the "detected" column of the
\* output is missing: an entry no source catalog and no partner gave a value
\* holds 0.
C13_DetectedFilled ==
    pc = "done" =>
        \A p \in 1..Len(result) :
            /\ result[p].detected # Masked
            /\ result[p].detected \in DetVals \cup {Cell(0)}

====
